---- MODULE Spec2Model ----
(***************************************************************************)
(* Model of src/src/panic.rs: capitalize_firstchar and the RawPassword     *)
(* constructor (new_password, validate_is_good,                            *)
(* validate_is_not_past_password, file_to_vec, hash).                      *)
(*                                                                         *)
(* A string is a sequence of Unicode scalar values (code points); its      *)
(* UTF-8 byte length is computed from the code points.  A call is one      *)
(* behaviour: Init fixes the function called and its arguments, the        *)
(* actions are the successive statements of the callee, and pc = "done"    *)
(* is the state after the call returned or panicked.                       *)
(***************************************************************************)
EXTENDS Integers, Sequences, FiniteSets, TLC

VARIABLES pc, fn, arg_s, ret_s, arg_user, arg_pass, arg_salt, result, ret,
          panic_msg, handle, opens, lines_read, past_hashes

vars == <<pc, fn, arg_s, ret_s, arg_user, arg_pass, arg_salt, result, ret,
          panic_msg, handle, opens, lines_read, past_hashes>>

(* ---------------------------- bounds ----------------------------------- *)
MaxLen == 5      \* longest enumerated password, in scalar values
MaxLines == 3    \* most lines PAST_HASH_FILE holds
MaxStr == 3      \* longest enumerated argument of capitalize_firstchar

(* ---------------------------- characters ------------------------------- *)
\* '1', '!', 'a' and U+0663 ARABIC-INDIC DIGIT THREE (numeric, not ASCII, 2 bytes)
PassAlphabet == {49, 33, 97, 1635}
\* 'h', 'H', U+00DF sharp s, U+2764 heavy black heart
CapAlphabet == {104, 72, 223, 10084}

SeqsUpTo(S, n) == UNION {[1..k -> S] : k \in 0..n}

str_caleb == <<99, 97, 108, 101, 98>>
str_1234567bang == <<49, 50, 51, 52, 53, 54, 55, 33>>
str_hello == <<104, 101, 108, 108, 111>>
str_Hello == <<72, 101, 108, 108, 111>>
str_hearts == <<10084, 65039, 32, 10084, 65039>>

Users == {<<>>, str_caleb, <<49, 33, 49, 33, 49>>}
Passwords == SeqsUpTo(PassAlphabet, MaxLen) \cup {str_1234567bang}
Salts == {7, 20210225}
CapInputs == SeqsUpTo(CapAlphabet, MaxStr) \cup {str_hello, str_Hello, str_hearts}
\* lines PAST_HASH_FILE may hold: "22", "85", "2x"
FileLines == {<<50, 50>>, <<56, 53>>, <<50, 120>>}

NoRecord == [none |-> TRUE]
NoString == <<-1>>
NoPanic == "none"

(* ---------------------------- std helpers ------------------------------ *)
\* char::len_utf8
len_utf8(ch) == IF ch < 128 THEN 1 ELSE IF ch < 2048 THEN 2 ELSE IF ch < 65536 THEN 3 ELSE 4

\* str::len : the length in BYTES of the UTF-8 encoding
RECURSIVE str_len(_)
str_len(s) == IF s = <<>> THEN 0 ELSE len_utf8(Head(s)) + str_len(Tail(s))

\* char::is_ascii_digit
is_ascii_digit(ch) == ch \in 48..57

\* char::is_ascii_punctuation
is_ascii_punctuation(ch) == ch \in 33..47 \/ ch \in 58..64 \/ ch \in 91..96 \/ ch \in 123..126

\* char::to_uppercase, as the sequence of scalar values it yields
to_uppercase(ch) ==
    IF ch \in 97..122 THEN <<ch - 32>>
    ELSE IF ch = 223 THEN <<83, 83>>
    ELSE IF ch \in 224..254 /\ ch # 247 THEN <<ch - 32>>
    ELSE <<ch>>

\* format!("{}", n) for n: usize
RECURSIVE format_usize(_)
format_usize(n) == IF n < 10 THEN <<48 + n>> ELSE format_usize(n \div 10) \o <<48 + (n % 10)>>

RECURSIVE digits_value(_, _)
digits_value(s, acc) == IF s = <<>> THEN acc ELSE digits_value(Tail(s), 10 * acc + (Head(s) - 48))

\* str::parse::<usize>
parse_usize(line) ==
    LET body == IF line # <<>> /\ Head(line) = 43 THEN Tail(line) ELSE line
    IN IF body # <<>> /\ \A i \in 1..Len(body) : body[i] \in 48..57
       THEN [ok |-> TRUE, val |-> digits_value(body, 0)]
       ELSE [ok |-> FALSE, val |-> 0]

(* ---------------------------- panic.rs --------------------------------- *)
MIN_PASS_LEN == 5

MsgExpect == "capitalize function expected a nonempty string"
MsgEmpty == "Empty password is not secure!"
MsgShort == "Password is too short: must be at least 5 chars"
MsgNumber == "assertion failed: self.pass.chars().any(is_number)"
MsgSpecial == "assertion failed: self.pass.chars().any(is_special)"
MsgUser == "Password should not be same as username!"
MsgPast == "Bad password: same as past hash!"
MsgOpen == "called Result::unwrap() on an Err value: Os NotFound"
MsgParse == "called Result::unwrap() on an Err value: ParseIntError"

\* char::is_numeric in place of char::is_ascii_digit (also true of U+0660..U+0669)
is_number_numeric(ch) == ch \in 48..57 \/ ch \in 1632..1641
is_number(ch) == is_ascii_digit(ch)

is_special(ch) == is_ascii_punctuation(ch)

\* the comparison made with the wrong field
same_as_salt(r) == r.pass = r.salt
same_as_user(r) == r.pass = r.user

\* RawPassword::hash
hash(r) == str_len(r.user) + 3 * str_len(r.pass) + 7 * str_len(r.salt)

\* the loop stopping one element early
contains_butlast(v, h) == \E i \in 1..(Len(v) - 1) : v[i] = h
\* the loop of validate_is_not_past_password: some element equals h
contains(v, h) == \E i \in 1..Len(v) : v[i] = h

TypeOK ==
    /\ pc \in {"capitalize_firstchar", "new_password", "is_empty", "len", "is_number",
               "is_special", "user", "open", "lines", "past", "done"}
    /\ fn \in {"capitalize_firstchar", "new_password"}
    /\ opens \in 0..1
    /\ handle \in {"none", "open", "closed"}

Init ==
    /\ ret_s = NoString
    /\ result = NoRecord
    /\ ret = NoRecord
    /\ panic_msg = NoPanic
    /\ handle = "none"
    /\ opens = 0
    /\ lines_read = <<>>
    /\ past_hashes = <<>>
    /\ \/ /\ fn = "capitalize_firstchar"
          /\ pc = "capitalize_firstchar"
          /\ arg_s \in CapInputs
          /\ arg_user = <<>> /\ arg_pass = <<>> /\ arg_salt = 0
       \/ /\ fn = "new_password"
          /\ pc = "new_password"
          /\ arg_s = <<>>
          /\ arg_user \in Users
          /\ arg_pass \in Passwords
          /\ arg_salt \in Salts

\* panic!: the stack unwinds, the record under construction is dropped and
\* nothing is returned
Panic(msg) ==
    /\ pc' = "done"
    /\ panic_msg' = msg
    /\ result' = NoRecord
    /\ UNCHANGED <<ret, ret_s>>

Goto(l) ==
    /\ pc' = l
    /\ UNCHANGED <<panic_msg, result, ret, ret_s>>

Args == <<fn, arg_s, arg_user, arg_pass, arg_salt>>
FileVars == <<handle, opens, lines_read, past_hashes>>

capitalize_firstchar ==
    /\ pc = "capitalize_firstchar"
    /\ IF arg_s = <<>>
       THEN Panic(MsgExpect)
       ELSE /\ ret_s' = to_uppercase(Head(arg_s))
            /\ pc' = "done"
            /\ UNCHANGED <<panic_msg, result, ret>>
    /\ UNCHANGED <<Args, FileVars>>

new_password ==
    /\ pc = "new_password"
    /\ result' = [user |-> arg_user, pass |-> arg_pass, salt |-> format_usize(arg_salt)]
    /\ pc' = "is_empty"
    /\ UNCHANGED <<panic_msg, ret, ret_s, Args, FileVars>>

validate_is_empty ==
    /\ pc = "is_empty"
    /\ IF result.pass = <<>> THEN Panic(MsgEmpty) ELSE Goto("len")
    /\ UNCHANGED <<Args, FileVars>>

validate_len ==
    /\ pc = "len"
    /\ IF str_len(result.pass) < MIN_PASS_LEN THEN Panic(MsgShort) ELSE Goto("is_number")
    /\ UNCHANGED <<Args, FileVars>>

validate_is_number ==
    /\ pc = "is_number"
    /\ IF \E i \in 1..Len(result.pass) : is_number(result.pass[i])
       THEN Goto("is_special") ELSE Panic(MsgNumber)
    /\ UNCHANGED <<Args, FileVars>>

validate_is_special ==
    /\ pc = "is_special"
    /\ IF \E i \in 1..Len(result.pass) : is_special(result.pass[i])
       THEN Goto("user") ELSE Panic(MsgSpecial)
    /\ UNCHANGED <<Args, FileVars>>

validate_user ==
    /\ pc = "user"
    /\ IF same_as_user(result) THEN Panic(MsgUser) ELSE Goto("open")
    /\ UNCHANGED <<Args, FileVars>>

\* File::open("PAST_HASH_FILE").unwrap()
file_open ==
    /\ pc = "open"
    /\ \/ /\ Panic(MsgOpen)
          /\ UNCHANGED FileVars
       \/ /\ handle' = "open"
          /\ opens' = opens + 1
          /\ Goto("lines")
          /\ UNCHANGED <<lines_read, past_hashes>>
    /\ UNCHANGED Args

\* file_line with the reader not dropped when the parse fails
file_line_leak ==
    /\ pc = "lines"
    /\ Len(lines_read) < MaxLines
    /\ \E line \in FileLines :
         /\ lines_read' = Append(lines_read, line)
         /\ IF parse_usize(line).ok
            THEN /\ past_hashes' = Append(past_hashes, parse_usize(line).val)
                 /\ Goto("lines")
                 /\ UNCHANGED handle
            ELSE /\ Panic(MsgParse)
                 /\ UNCHANGED <<handle, past_hashes>>
    /\ UNCHANGED <<Args, opens>>

\* one item of reader.lines().map(|line| line.unwrap().parse().unwrap());
\* a failed unwrap unwinds and drops the reader, which closes the file
file_line ==
    /\ pc = "lines"
    /\ Len(lines_read) < MaxLines
    /\ \E line \in FileLines :
         /\ lines_read' = Append(lines_read, line)
         /\ IF parse_usize(line).ok
            THEN /\ past_hashes' = Append(past_hashes, parse_usize(line).val)
                 /\ Goto("lines")
                 /\ UNCHANGED handle
            ELSE /\ Panic(MsgParse)
                 /\ handle' = "closed"
                 /\ UNCHANGED past_hashes
    /\ UNCHANGED <<Args, opens>>

\* end of file: collect() finishes, file_to_vec returns and drops the reader
file_collect ==
    /\ pc = "lines"
    /\ handle' = "closed"
    /\ Goto("past")
    /\ UNCHANGED <<Args, opens, lines_read, past_hashes>>

validate_is_not_past_password ==
    /\ pc = "past"
    /\ IF contains(past_hashes, hash(result))
       THEN Panic(MsgPast)
       ELSE /\ pc' = "done"
            /\ ret' = result
            /\ UNCHANGED <<panic_msg, result, ret_s>>
    /\ UNCHANGED <<Args, FileVars>>

Next ==
    \/ capitalize_firstchar
    \/ new_password
    \/ validate_is_empty
    \/ validate_len
    \/ validate_is_number
    \/ validate_is_special
    \/ validate_user
    \/ file_open
    \/ file_line
    \/ file_collect
    \/ validate_is_not_past_password

Spec == Init /\ [][Next]_vars

(* ====================== properties of the calls ======================== *)
Done == pc = "done"
Created == fn = "new_password" /\ Done
Capitalized == fn = "capitalize_firstchar" /\ Done

\* the error a panic message stands for
ErrorOf(msg) ==
    CASE msg = MsgEmpty -> "EmptyPassword"
      [] msg = MsgShort -> "TooShort"
      [] msg = MsgNumber -> "MissingDigit"
      [] msg = MsgSpecial -> "MissingSpecialChar"
      [] msg = MsgUser -> "SameAsUsername"
      [] msg = MsgPast -> "PreviouslyUsed"
      [] msg \in {MsgOpen, MsgParse} -> "HistoryUnavailable"
      [] msg = MsgExpect -> "EmptyInput"
      [] OTHER -> "Ok"
Outcome == ErrorOf(panic_msg)

Scalars(s) == Len(s)
HasAsciiDigit(s) == \E i \in 1..Len(s) : s[i] >= 48 /\ s[i] <= 57
AsciiPunct == (33..47) \cup (58..64) \cup (91..96) \cup (123..126)
HasAsciiPunct(s) == \E i \in 1..Len(s) : s[i] \in AsciiPunct

\* number of the first of the checks 1-5 that the arguments fail, 6 if none
FirstFailing(u, p) ==
    IF p = <<>> THEN 1
    ELSE IF Scalars(p) < 5 THEN 2
    ELSE IF ~HasAsciiDigit(p) THEN 3
    ELSE IF ~HasAsciiPunct(p) THEN 4
    ELSE IF p = u THEN 5
    ELSE 6
CheckError == <<"EmptyPassword", "TooShort", "MissingDigit", "MissingSpecialChar", "SameAsUsername">>

Fingerprint == hash([user |-> arg_user, pass |-> arg_pass, salt |-> format_usize(arg_salt)])
StoreRead == handle = "closed" /\ \A i \in 1..Len(lines_read) : parse_usize(lines_read[i]).ok
StoreUnreadable == handle = "none" \/ \E i \in 1..Len(lines_read) : ~parse_usize(lines_read[i]).ok
InHistory == \E i \in 1..Len(lines_read) : parse_usize(lines_read[i]).ok /\ parse_usize(lines_read[i]).val = Fingerprint

\* C1: the outcome of new_password is that of the first failing check in the
\* order 1 non-empty, 2 minimum length (scalar values), 3 digit,
\* 4 punctuation, 5 not the username, 6 history; when one of 1-5 fails its
\* error is the one reported and the history store is never opened.
C1_FirstFailingCheckDecides ==
    Created =>
        LET k == FirstFailing(arg_user, arg_pass)
        IN IF k <= 5
           THEN Outcome = CheckError[k] /\ opens = 0
           ELSE Outcome \in {"PreviouslyUsed", "HistoryUnavailable", "Ok"}

\* C2: every password of fewer than 5 Unicode scalar values is rejected with
\* TooShort, however many bytes its encoding has (the empty password, which
\* check 1 rejects first, is left aside).
C2_ShortInScalarsIsTooShort ==
    (Created /\ arg_pass # <<>> /\ Scalars(arg_pass) < 5) => Outcome = "TooShort"

\* C3: a password that is non-empty, long enough, has ASCII punctuation and
\* differs from the username but has no character in '0'..'9' is rejected
\* with MissingDigit and with no other error, and nothing is returned.
C3_NoDigitIsMissingDigit ==
    (Created /\ arg_pass # <<>> /\ Scalars(arg_pass) >= 5 /\ HasAsciiPunct(arg_pass)
             /\ arg_pass # arg_user /\ ~HasAsciiDigit(arg_pass))
        => /\ panic_msg = MsgNumber
           /\ panic_msg \notin {MsgEmpty, MsgShort, MsgSpecial, MsgUser, MsgPast, MsgOpen, MsgParse}
           /\ Outcome = "MissingDigit"
           /\ ret = NoRecord
C3_Witness ==
    /\ Created /\ Scalars(arg_pass) >= 5 /\ HasAsciiPunct(arg_pass)
    /\ arg_pass # arg_user /\ ~HasAsciiDigit(arg_pass)
    /\ \E i \in 1..Len(arg_pass) : arg_pass[i] = 1635
    /\ Outcome = "MissingDigit"

\* C4 as stated: every password equal to the username is rejected with
\* SameAsUsername, and the history store is not consulted.
C4_Original ==
    (Created /\ arg_pass = arg_user) => (Outcome = "SameAsUsername" /\ opens = 0)
\* C4 amended: every password equal to the username that passes checks 1-4
\* (non-empty, at least 5 scalar values, an ASCII digit, ASCII punctuation)
\* is rejected with SameAsUsername, nothing is returned and the history
\* store is not consulted.
C4_SameAsUsernameAfterChecks1to4 ==
    (Created /\ arg_pass = arg_user /\ arg_pass # <<>> /\ Scalars(arg_pass) >= 5
             /\ HasAsciiDigit(arg_pass) /\ HasAsciiPunct(arg_pass))
        => /\ Outcome = "SameAsUsername"
           /\ ret = NoRecord
           /\ opens = 0 /\ handle = "none" /\ lines_read = <<>>
C4_Witness ==
    /\ Created /\ arg_pass = arg_user /\ Scalars(arg_pass) >= 5
    /\ HasAsciiDigit(arg_pass) /\ HasAsciiPunct(arg_pass)
    /\ panic_msg = MsgUser

\* C5: for arguments that pass checks 1-5 and a history store that was read
\* to its end, new_password fails with PreviouslyUsed exactly when the
\* fingerprint is at some position of the store, and otherwise returns the
\* record holding the arguments, the salt in decimal; for caleb, 1234567!,
\* 20210225 the fingerprint is the line 85.
C5_PreviouslyUsedIffInHistory ==
    (Created /\ FirstFailing(arg_user, arg_pass) = 6 /\ StoreRead)
        => /\ (Outcome = "PreviouslyUsed") <=> InHistory
           /\ InHistory => ret = NoRecord
           /\ ~InHistory =>
                /\ Outcome = "Ok"
                /\ ret # NoRecord
                /\ ret.user = arg_user
                /\ ret.pass = arg_pass
                /\ \A i \in 1..Len(ret.salt) : ret.salt[i] \in 48..57
                /\ Len(ret.salt) >= 1 /\ (Len(ret.salt) > 1 => ret.salt[1] # 48)
                /\ digits_value(ret.salt, 0) = arg_salt
           /\ (arg_user = str_caleb /\ arg_pass = str_1234567bang /\ arg_salt = 20210225)
                => ((Outcome = "PreviouslyUsed") <=> \E i \in 1..Len(lines_read) : lines_read[i] = <<56, 53>>)
C5_Witness ==
    /\ Created
    /\ arg_user = str_caleb /\ arg_pass = str_1234567bang /\ arg_salt = 20210225
    /\ lines_read = << <<50, 50>>, <<50, 50>>, <<56, 53>> >>
    /\ Outcome = "PreviouslyUsed"

\* C6: when the store cannot be read for arguments that pass checks 1-5
\* (it cannot be opened, or a line is not a number), new_password returns
\* to its caller: it does not panic, returns no record and does not report
\* PreviouslyUsed.
C6_UnreadableStoreIsReturned ==
    (Created /\ FirstFailing(arg_user, arg_pass) = 6 /\ StoreUnreadable)
        => /\ panic_msg = NoPanic
           /\ ret = NoRecord
           /\ Outcome # "PreviouslyUsed"

\* C7: no call of new_password ends in a panic: every call returns to its
\* caller.
C7_NeverPanics ==
    Created => panic_msg = NoPanic

\* C8: a record in the caller's hands has passed all six checks: its
\* password is non-empty, has at least 5 scalar values, an ASCII digit and
\* ASCII punctuation, differs from its username, and its fingerprint is not
\* in the history.
C8_ReturnedRecordIsValidated ==
    (ret # NoRecord) =>
        /\ ret.pass # <<>>
        /\ Scalars(ret.pass) >= 5
        /\ HasAsciiDigit(ret.pass)
        /\ HasAsciiPunct(ret.pass)
        /\ ret.pass # ret.user
        /\ ~InHistory

\* C9: capitalize_firstchar of a non-empty string is the uppercase form of
\* its first scalar value followed by the rest of the string unchanged
\* ("hello" gives "Hello"); of the empty string it fails with EmptyInput.
C9_CapitalizeKeepsRest ==
    Capitalized =>
        IF arg_s = <<>>
        THEN Outcome = "EmptyInput" /\ ret_s = NoString
        ELSE /\ panic_msg = NoPanic
             /\ ret_s = to_uppercase(Head(arg_s)) \o Tail(arg_s)
             /\ (arg_s = str_hello => ret_s = str_Hello)

\* C10: the store is open only while its lines are read: never while one of
\* checks 1-5 is pending or after one failed, at most once per call, and it
\* is closed when the call ends, whichever way the history check ended.
C10_HandleScopedToHistoryCheck ==
    /\ handle = "open" => pc = "lines"
    /\ opens <= 1
    /\ pc \in {"new_password", "is_empty", "len", "is_number", "is_special", "user", "open"}
         => (opens = 0 /\ handle = "none")
    /\ panic_msg \in {MsgEmpty, MsgShort, MsgNumber, MsgSpecial, MsgUser, MsgOpen}
         => (opens = 0 /\ handle = "none")
    /\ Done => handle # "open"
    /\ (Done /\ panic_msg \in {MsgParse, MsgPast}) => (opens = 1 /\ handle = "closed")
    /\ (Done /\ ret # NoRecord) => (opens = 1 /\ handle = "closed")
C10_Witness ==
    /\ Created /\ panic_msg = MsgParse /\ Len(lines_read) = 2
    /\ opens = 1 /\ handle = "closed"

====
